---- MODULE Spec2Model ----
(***************************************************************************)
(* Model of the ttl-operator controllers.                                  *)
(*                                                                         *)
(*   ResourceReconciler    internal/controller/resource_controller.go      *)
(*   TTLResourceReconciler internal/controller/ttlresource_controller.go   *)
(*   TTLResource           api/v1alpha1/ttlresource_types.go               *)
(*                                                                         *)
(* The object store holds TTLResource records and Pod/Service/Deployment   *)
(* targets of one namespace.  Each reconciler is a worker that runs one    *)
(* invocation at a time; every store call of an invocation is one atomic   *)
(* step, so that the other worker and the users of the cluster interleave  *)
(* between the calls.                                                      *)
(***************************************************************************)
EXTENDS Integers, Sequences, FiniteSets, TLC

\* ------------------------------------------------------------------ bounds
MaxTime == 3      \* the clock runs from 1 to MaxTime
MaxExt  == 2      \* number of changes made by users of the cluster

\* --------------------------------------------------------------- constants
ZeroTime == 0     \* the zero metav1.Time / a nil *metav1.Time
RequeueSecond == 1  \* time.Second, the fixed delay after a Conflict

TTLAnnotationKey      == "ttl.example.com/ttl-seconds"
TTLResourceLabelKey   == "ttl.example.com/managed-by"
TTLResourceLabelValue == "resource-controller"

Kinds == {"Pod", "Service", "Deployment"}

\* names of targets and of records that users and the controller create
TargetNames == {"a"}
ttlResourceName(name) == "ttl-" \o name
RecordNames == {ttlResourceName(n) : n \in TargetNames}
Keys == TargetNames \cup RecordNames

\* annotation values users write, as strings of characters
AnnInputs == {<<"1">>, <<"2">>, <<"0">>, <<"x">>}
\* spec.ttlSeconds of records users create
TTLInputs == {0, 1}

VARIABLES
    now,        \* the wall clock
    records,    \* store: TTLResource by name
    targets,    \* store: Pod/Service/Deployment by <<kind, name>>
    nextUID,    \* next UID the store hands out
    ext,        \* number of user changes so far
    rr,         \* the ResourceReconciler worker
    tr,         \* the TTLResourceReconciler worker
    queue       \* per controller, the keys waiting to be reconciled

vars == <<now, records, targets, nextUID, ext, rr, tr, queue>>
store == <<records, targets, nextUID>>

\* ------------------------------------------------------------ object model
\* what a read that finds nothing returns; the UIDs of objects start at 1
NoObj == [uid |-> 0]
Exists(o) == o.uid # 0

\* TTLResourceStatus{}: the zero value
EmptyStatus == [expired |-> FALSE, createdAt |-> ZeroTime, expiredAt |-> ZeroTime]

NoAnnotation == [has |-> FALSE, val |-> <<>>]
Annotation(v) == [has |-> TRUE, val |-> v]

\* metav1.OwnerReference; apiVersion is kept as its "/"-separated parts
OwnerRef(apiVersion, kind, name, uid) ==
    [apiVersion |-> apiVersion, kind |-> kind, name |-> name, uid |-> uid]

apiVersionOf(kind) == IF kind = "Deployment" THEN <<"apps", "v1">> ELSE <<"v1">>

GetRecord(name) == IF name \in DOMAIN records THEN records[name] ELSE NoObj
GetTarget(kind, name) ==
    IF <<kind, name>> \in DOMAIN targets THEN targets[<<kind, name>>] ELSE NoObj

\* strconv.Atoi: optional sign, then one or more decimal digits
DigitVal == ("0" :> 0) @@ ("1" :> 1) @@ ("2" :> 2) @@ ("3" :> 3) @@ ("4" :> 4) @@
            ("5" :> 5) @@ ("6" :> 6) @@ ("7" :> 7) @@ ("8" :> 8) @@ ("9" :> 9)

RECURSIVE DigitsValue(_, _)
DigitsValue(s, acc) ==
    IF s = <<>> THEN acc ELSE DigitsValue(Tail(s), acc * 10 + DigitVal[Head(s)])

Atoi(s) ==
    LET signed == s # <<>> /\ Head(s) \in {"+", "-"}
        digits == IF signed THEN Tail(s) ELSE s
        okDigits == digits # <<>> /\ \A i \in 1..Len(digits) : digits[i] \in DOMAIN DigitVal
    IN  IF ~okDigits THEN [err |-> TRUE, n |-> 0]
        ELSE [err |-> FALSE,
              n |-> IF signed /\ Head(s) = "-" THEN 0 - DigitsValue(digits, 0)
                    ELSE DigitsValue(digits, 0)]

\* schema.ParseGroupVersion on the "/"-separated parts of an apiVersion:
\* "v1" -> group "", "apps/v1" -> group "apps"; more than one "/" is an error
ParseGroupVersion(apiVersion) ==
    IF Len(apiVersion) = 1 THEN [err |-> FALSE, group |-> "", version |-> apiVersion[1]]
    ELSE IF Len(apiVersion) = 2
         THEN [err |-> FALSE, group |-> apiVersion[1], version |-> apiVersion[2]]
         ELSE [err |-> TRUE, group |-> "", version |-> ""]

\* the switch of deleteOwnerResource: the kinds it can delete
SupportedGVK(group, version, kind) ==
    \/ group = "" /\ version = "v1" /\ kind = "Pod"
    \/ group = "" /\ version = "v1" /\ kind = "Service"
    \/ group = "apps" /\ version = "v1" /\ kind = "Deployment"

\* ------------------------------------------------------------- store calls
\* Each returns the outcome and the store after the call.

\* client.Status().Update as a blind overwrite: no test of the version read
StatusUpdateBlind(obj) ==
    LET cur == GetRecord(obj.name) IN
    IF ~Exists(cur) THEN [outcome |-> "NotFound", records |-> records, obj |-> obj]
    ELSE LET new == [cur EXCEPT !.status = obj.status,
                                !.rv = IF cur.status = obj.status THEN @ ELSE @ + 1]
         IN [outcome |-> "OK", records |-> [records EXCEPT ![obj.name] = new], obj |-> new]

\* client.Status().Update: writes the status alone, on the version it read
StatusUpdate(obj) ==
    LET cur == GetRecord(obj.name) IN
    IF ~Exists(cur) THEN [outcome |-> "NotFound", records |-> records, obj |-> obj]
    ELSE IF cur.uid # obj.uid \/ cur.rv # obj.rv
    THEN [outcome |-> "Conflict", records |-> records, obj |-> obj]
    ELSE LET new == [cur EXCEPT !.status = obj.status,
                                !.rv = IF cur.status = obj.status THEN @ ELSE @ + 1]
         IN [outcome |-> "OK", records |-> [records EXCEPT ![obj.name] = new], obj |-> new]

\* client.Update as it would be on a kind without the status subresource:
\* the status in the request is stored with the spec
UpdateWithStatus(obj) ==
    LET cur == GetRecord(obj.name) IN
    IF ~Exists(cur) THEN [outcome |-> "NotFound", records |-> records, obj |-> obj]
    ELSE IF cur.uid # obj.uid \/ cur.rv # obj.rv
    THEN [outcome |-> "Conflict", records |-> records, obj |-> obj]
    ELSE LET new == [cur EXCEPT !.ttlSeconds = obj.ttlSeconds, !.status = obj.status,
                                !.rv = IF cur.ttlSeconds = obj.ttlSeconds
                                          /\ cur.status = obj.status THEN @ ELSE @ + 1]
         IN [outcome |-> "OK", records |-> [records EXCEPT ![obj.name] = new], obj |-> new]

\* client.Update on a kind with the status subresource: writes spec and
\* metadata on the version it read; the status in the request is dropped
Update(obj) ==
    LET cur == GetRecord(obj.name) IN
    IF ~Exists(cur) THEN [outcome |-> "NotFound", records |-> records, obj |-> obj]
    ELSE IF cur.uid # obj.uid \/ cur.rv # obj.rv
    THEN [outcome |-> "Conflict", records |-> records, obj |-> obj]
    ELSE LET new == [cur EXCEPT !.ttlSeconds = obj.ttlSeconds,
                                !.rv = IF cur.ttlSeconds = obj.ttlSeconds THEN @ ELSE @ + 1]
         IN [outcome |-> "OK", records |-> [records EXCEPT ![obj.name] = new], obj |-> new]

\* client.Create of a TTLResource; the store sets UID, version, creation time
\* and starts the status empty
Create(name, managed, owners, ttlSeconds) ==
    IF Exists(GetRecord(name)) THEN [outcome |-> "AlreadyExists", records |-> records]
    ELSE [outcome |-> "OK",
          records |-> [records EXCEPT ![name] =
              [uid |-> nextUID, name |-> name, rv |-> 1, creationTimestamp |-> now,
               managed |-> managed, owners |-> owners, ttlSeconds |-> ttlSeconds,
               status |-> EmptyStatus]]]

\* client.Delete of a TTLResource: by name, with no precondition
Delete(name) ==
    IF ~Exists(GetRecord(name)) THEN [outcome |-> "NotFound", records |-> records]
    ELSE [outcome |-> "OK", records |-> [records EXCEPT ![name] = NoObj]]

\* client.Delete of a target: by kind and name, with no precondition.  A Pod
\* is marked with its deletion timestamp and removed later; the others go at once.
DeleteTarget(kind, name) ==
    LET cur == GetTarget(kind, name) IN
    IF ~Exists(cur) THEN [outcome |-> "NotFound", targets |-> targets]
    ELSE IF kind = "Pod"
    THEN [outcome |-> "OK",
          targets |-> [targets EXCEPT ![<<kind, name>>].deleting = TRUE]]
    ELSE [outcome |-> "OK", targets |-> [targets EXCEPT ![<<kind, name>>] = NoObj]]

\* ------------------------------------------------------------- results
\* ctrl.Result and the error of an invocation
Result(requeue, requeueAfter, err) ==
    [requeue |-> requeue, requeueAfter |-> requeueAfter, err |-> err]
Success == Result(FALSE, 0, FALSE)
Failure == Result(FALSE, 0, TRUE)
RequeueAfter(d) == Result(FALSE, d, FALSE)
Requeue == Result(TRUE, 0, FALSE)

\* one entry of an invocation's log of writes and deletes
Op(op, kind, name, uid, outcome) ==
    [op |-> op, kind |-> kind, name |-> name, uid |-> uid, outcome |-> outcome]

\* a worker between invocations keeps the key and the result of its last one
Idle(key, res) ==
    [pc |-> "idle", key |-> key, now |-> 0, ttlResource |-> NoObj, obj |-> NoObj,
     ttlSeconds |-> 0, res |-> res, log |-> <<>>]

\* a worker whose invocation for key goes on in state next
Running(key, next) ==
    IF next.pc = "idle" THEN [next EXCEPT !.key = key]
    ELSE [next EXCEPT !.key = key, !.res = Success]

\* ----------------------------------------------------------- triggers
\* SetupWithManager: the TTLResourceReconciler is triggered by TTLResources;
\* the ResourceReconciler by Pods, Services, Deployments and TTLResources,
\* each under the name of the changed object.
ChangedRecords == {n \in RecordNames : records'[n] # records[n]}
ChangedTargets == {t[2] : t \in {u \in DOMAIN targets : targets'[u] # targets[u]}}

Notified(q) ==
    [rr |-> q.rr \cup ChangedRecords \cup ChangedTargets,
     tr |-> q.tr \cup ChangedRecords]

\* What the controller does with the worker's key when a step of worker w
\* leaves it in state next: after an error, Requeue or a positive
\* RequeueAfter the key is due again, anything else drops it.  A key that is
\* due waits in the queue; the delay asked for is a lower bound the notifier
\* need not keep, since it may deliver any key again at any time.
Requeued(res) == res.err \/ res.requeue \/ res.requeueAfter > 0

Schedule(w, key, next, q) ==
    queue' = Notified(IF next.pc = "idle" /\ Requeued(next.res)
                      THEN [q EXCEPT ![w] = @ \cup {key}] ELSE q)

TypeOK ==
    /\ now \in 1..MaxTime
    /\ ext \in 0..MaxExt
    /\ DOMAIN records = RecordNames
    /\ DOMAIN targets = Kinds \X TargetNames
    /\ queue.rr \subseteq Keys /\ queue.tr \subseteq RecordNames

Init ==
    /\ now = 1
    /\ records = [n \in RecordNames |-> NoObj]
    /\ targets = [t \in Kinds \X TargetNames |-> NoObj]
    /\ nextUID = 1
    /\ ext = 0
    /\ rr = Idle("", Success)
    /\ tr = Idle("", Success)
    /\ queue = [rr |-> {}, tr |-> {}]

\* ----------------------------------------------------------- environment
\* time passes
Tick ==
    /\ now < MaxTime
    /\ now' = now + 1
    /\ UNCHANGED <<store, ext, rr, tr, queue>>

\* a user creates a target, with or without the TTL annotation
UserCreateTarget(kind, name, ann) ==
    /\ ext < MaxExt
    /\ ~Exists(GetTarget(kind, name))
    /\ targets' = [targets EXCEPT ![<<kind, name>>] =
           [uid |-> nextUID, kind |-> kind, name |-> name, annotations |-> ann,
            deleting |-> FALSE]]
    /\ nextUID' = nextUID + 1
    /\ ext' = ext + 1
    /\ UNCHANGED <<now, records, rr, tr>>
    /\ queue' = Notified(queue)

\* a user sets, changes or removes the TTL annotation of a target
UserAnnotate(kind, name, ann) ==
    /\ ext < MaxExt
    /\ Exists(GetTarget(kind, name))
    /\ targets[<<kind, name>>].annotations # ann
    /\ targets' = [targets EXCEPT ![<<kind, name>>].annotations = ann]
    /\ ext' = ext + 1
    /\ UNCHANGED <<now, records, nextUID, rr, tr>>
    /\ queue' = Notified(queue)

\* a user deletes a target
UserDeleteTarget(kind, name) ==
    /\ ext < MaxExt
    /\ Exists(GetTarget(kind, name))
    /\ ~targets[<<kind, name>>].deleting
    /\ targets' = DeleteTarget(kind, name).targets
    /\ ext' = ext + 1
    /\ UNCHANGED <<now, records, nextUID, rr, tr>>
    /\ queue' = Notified(queue)

\* the store removes a target whose deletion timestamp is set
TargetRemoved(kind, name) ==
    /\ Exists(GetTarget(kind, name))
    /\ targets[<<kind, name>>].deleting
    /\ targets' = [targets EXCEPT ![<<kind, name>>] = NoObj]
    /\ UNCHANGED <<now, records, nextUID, ext, rr, tr>>
    /\ queue' = Notified(queue)

\* a user creates a TTLResource by hand: no managed-by label, no owner
UserCreateRecord(name, ttlSeconds) ==
    /\ ext < MaxExt
    /\ Create(name, FALSE, <<>>, ttlSeconds).outcome = "OK"
    /\ records' = Create(name, FALSE, <<>>, ttlSeconds).records
    /\ nextUID' = nextUID + 1
    /\ ext' = ext + 1
    /\ UNCHANGED <<now, targets, rr, tr>>
    /\ queue' = Notified(queue)

\* a user deletes a TTLResource
UserDeleteRecord(name) ==
    /\ ext < MaxExt
    /\ Delete(name).outcome = "OK"
    /\ records' = Delete(name).records
    /\ ext' = ext + 1
    /\ UNCHANGED <<now, targets, nextUID, rr, tr>>
    /\ queue' = Notified(queue)

\* a user edits spec.ttlSeconds of a TTLResource
UserSetTTL(name, ttlSeconds) ==
    /\ ext < MaxExt
    /\ Exists(GetRecord(name))
    /\ records[name].ttlSeconds # ttlSeconds
    /\ records' = Update([records[name] EXCEPT !.ttlSeconds = ttlSeconds]).records
    /\ ext' = ext + 1
    /\ UNCHANGED <<now, targets, nextUID, rr, tr>>
    /\ queue' = Notified(queue)

\* the notifier delivers a key again though nothing changed
Redelivered(w, key) ==
    /\ ext < MaxExt
    /\ key \notin queue[w]
    /\ queue' = [queue EXCEPT ![w] = @ \cup {key}]
    /\ ext' = ext + 1
    /\ UNCHANGED <<now, store, rr, tr>>

\* -------------------------------------------------- ResourceReconciler
\* A return of the invocation.
RRReturn(res, log) == Idle(rr.key, res)

RRAt(pc, ttlResource, log) ==
    [rr EXCEPT !.pc = pc, !.ttlResource = ttlResource, !.log = log]

\* a step of the worker that leaves it in state next
RRStep(key, next, q) == rr' = next /\ Schedule("rr", key, next, q)

\* deleteExpiredResources returning the error of deleteOwnerResource
deleteExpiredResourcesOrFail(latest, log) ==
    IF Len(latest.owners) = 0 THEN RRAt("deleteRecord", latest, log)
    ELSE IF LET gv == ParseGroupVersion(latest.owners[1].apiVersion)
            IN ~gv.err /\ SupportedGVK(gv.group, gv.version, latest.owners[1].kind)
    THEN RRAt("deleteOwner", latest, log)
    ELSE RRReturn(Failure, log)

\* deleteExpiredResources up to its first store call: the owner delete when
\* the first owner reference names a kind deleteOwnerResource can delete,
\* else the delete of the record
deleteExpiredResources(latest, log) ==
    IF Len(latest.owners) > 0
       /\ LET gv == ParseGroupVersion(latest.owners[1].apiVersion)
          IN ~gv.err /\ SupportedGVK(gv.group, gv.version, latest.owners[1].kind)
    THEN RRAt("deleteOwner", latest, log)
    ELSE RRAt("deleteRecord", latest, log)

\* reconcileTTLResource from the expiry checks on, for the record it now
\* holds and the time it read
checkExpiry(current, t, log) ==
    IF current.status.expired THEN RRAt("expiredGet", current, log)
    ELSE IF current.status.expiredAt # ZeroTime
    THEN IF ~(t < current.status.expiredAt)
         THEN RRAt("dueGet", current, log)
         ELSE RRReturn(RequeueAfter(current.status.expiredAt - t), log)
    ELSE RRReturn(Success, log)

\* reconcileTTLResource from its entry to its first store call
reconcileTTLResource(ttlResource, log) ==
    IF ttlResource.ttlSeconds = 0 THEN RRReturn(Success, log)
    ELSE IF ttlResource.status.createdAt = ZeroTime
            \/ ttlResource.status.expiredAt = ZeroTime
    THEN RRAt("statusGet", ttlResource, log)
    ELSE checkExpiry(ttlResource, now, log)

\* the status reconcileTTLResource writes for the record it re-read
latestStatus(latest) ==
    LET createdAt == IF latest.status.createdAt = ZeroTime
                     THEN latest.creationTimestamp ELSE latest.status.createdAt
        expiredAt == IF latest.status.expiredAt = ZeroTime /\ createdAt # ZeroTime
                     THEN createdAt + latest.ttlSeconds ELSE latest.status.expiredAt
    IN [latest.status EXCEPT !.createdAt = createdAt, !.expiredAt = expiredAt]

\* Reconcile looking at the annotation without testing the deletion timestamp
resolvedAnyway(obj) ==
    IF ~obj.annotations.has THEN [rr EXCEPT !.pc = "cleanupGet"]
    ELSE LET ttlSeconds == Atoi(obj.annotations.val) IN
         IF ttlSeconds.err \/ ttlSeconds.n <= 0 THEN RRReturn(Success, rr.log)
         ELSE [rr EXCEPT !.pc = "getExisting", !.obj = obj, !.ttlSeconds = ttlSeconds.n]

\* Reconcile from the resolved target to its next store call
resolved(obj) ==
    IF obj.deleting THEN [rr EXCEPT !.pc = "cleanupGet"]
    ELSE IF ~obj.annotations.has THEN [rr EXCEPT !.pc = "cleanupGet"]
    ELSE LET ttlSeconds == Atoi(obj.annotations.val) IN
         IF ttlSeconds.err \/ ttlSeconds.n <= 0 THEN RRReturn(Success, rr.log)
         ELSE [rr EXCEPT !.pc = "getExisting", !.obj = obj, !.ttlSeconds = ttlSeconds.n]

\* Reconcile: the first read, of the key as a TTLResource
RRReconcile(key) ==
    /\ rr.pc = "idle"
    /\ key \in queue.rr
    /\ UNCHANGED <<now, store, ext, tr>>
    /\ LET ttlResource == GetRecord(key)
       IN RRStep(key,
                 Running(key, IF Exists(ttlResource)
                              THEN reconcileTTLResource(ttlResource, <<>>)
                              ELSE [rr EXCEPT !.pc = "getPod"]),
                 [queue EXCEPT !.rr = @ \ {key}])

RRGetPod ==
    /\ rr.pc = "getPod"
    /\ UNCHANGED <<now, store, ext, tr>>
    /\ LET pod == GetTarget("Pod", rr.key)
       IN RRStep(rr.key, IF Exists(pod) THEN resolved(pod) ELSE [rr EXCEPT !.pc = "getService"],
                 queue)

RRGetService ==
    /\ rr.pc = "getService"
    /\ UNCHANGED <<now, store, ext, tr>>
    /\ LET svc == GetTarget("Service", rr.key)
       IN RRStep(rr.key, IF Exists(svc) THEN resolved(svc)
                 ELSE [rr EXCEPT !.pc = "getDeployment"], queue)

RRGetDeployment ==
    /\ rr.pc = "getDeployment"
    /\ UNCHANGED <<now, store, ext, tr>>
    /\ LET deploy == GetTarget("Deployment", rr.key)
       IN RRStep(rr.key, IF Exists(deploy) THEN resolved(deploy)
                 ELSE [rr EXCEPT !.pc = "cleanupGet"], queue)

\* Reconcile: the read of the record named after the target
RRGetExisting ==
    /\ rr.pc = "getExisting"
    /\ UNCHANGED <<now, store, ext, tr>>
    /\ LET existingTTLResource == GetRecord(ttlResourceName(rr.obj.name))
       IN RRStep(rr.key, IF Exists(existingTTLResource)
                 THEN IF existingTTLResource.ttlSeconds # rr.ttlSeconds
                      THEN [rr EXCEPT !.pc = "update",
                               !.ttlResource = [existingTTLResource EXCEPT
                                   !.ttlSeconds = rr.ttlSeconds, !.status = EmptyStatus]]
                      ELSE RRReturn(Success, rr.log)
                 ELSE [rr EXCEPT !.pc = "create"], queue)

\* Reconcile: the update of the record's spec
RRUpdate ==
    /\ rr.pc = "update"
    /\ LET call == Update(rr.ttlResource)
           log == Append(rr.log, Op("update", "TTLResource", rr.ttlResource.name,
                                    rr.ttlResource.uid, call.outcome))
       IN /\ records' = call.records
          /\ UNCHANGED <<now, targets, nextUID, ext, tr>>
          /\ RRStep(rr.key, IF call.outcome \in {"OK", "Conflict"} THEN RRReturn(Success, log)
                    ELSE RRReturn(Failure, log), queue)

\* the create of the managed record, an AlreadyExists returned as the error
RRCreateOrFail ==
    /\ rr.pc = "create"
    /\ LET owner == OwnerRef(apiVersionOf(rr.obj.kind), rr.obj.kind, rr.obj.name, rr.obj.uid)
           name == ttlResourceName(rr.obj.name)
           call == Create(name, TRUE, <<owner>>, rr.ttlSeconds)
           log == Append(rr.log, Op("create", "TTLResource", name,
                                    IF call.outcome = "OK" THEN nextUID ELSE 0,
                                    call.outcome))
       IN /\ records' = call.records
          /\ nextUID' = IF call.outcome = "OK" THEN nextUID + 1 ELSE nextUID
          /\ UNCHANGED <<now, targets, ext, tr>>
          /\ RRStep(rr.key, IF call.outcome = "OK" THEN RRReturn(Success, log)
                    ELSE RRReturn(Failure, log), queue)

\* Reconcile: the create of the managed record
RRCreate ==
    /\ rr.pc = "create"
    /\ LET owner == OwnerRef(apiVersionOf(rr.obj.kind), rr.obj.kind, rr.obj.name, rr.obj.uid)
           name == ttlResourceName(rr.obj.name)
           call == Create(name, TRUE, <<owner>>, rr.ttlSeconds)
           log == Append(rr.log, Op("create", "TTLResource", name,
                                    IF call.outcome = "OK" THEN nextUID ELSE 0,
                                    call.outcome))
       IN /\ records' = call.records
          /\ nextUID' = IF call.outcome = "OK" THEN nextUID + 1 ELSE nextUID
          /\ UNCHANGED <<now, targets, ext, tr>>
          /\ RRStep(rr.key, RRReturn(Success, log), queue)

\* cleanupTTLResource: the read of the record named after the key
RRCleanupGet ==
    /\ rr.pc = "cleanupGet"
    /\ UNCHANGED <<now, store, ext, tr>>
    /\ LET ttlResource == GetRecord(ttlResourceName(rr.key))
       IN RRStep(rr.key, IF ~Exists(ttlResource) THEN RRReturn(Success, rr.log)
                 ELSE IF ttlResource.managed
                 THEN RRAt("cleanupDelete", ttlResource, rr.log)
                 ELSE RRReturn(Success, rr.log), queue)

\* cleanupTTLResource: the delete of the managed record
RRCleanupDelete ==
    /\ rr.pc = "cleanupDelete"
    /\ LET name == rr.ttlResource.name
           call == Delete(name)
           log == Append(rr.log, Op("cleanupDelete", "TTLResource", name,
                                    GetRecord(name).uid, call.outcome))
       IN /\ records' = call.records
          /\ UNCHANGED <<now, targets, nextUID, ext, tr>>
          /\ RRStep(rr.key, RRReturn(Success, log), queue)

\* reconcileTTLResource: the re-read before the status write
RRStatusGet ==
    /\ rr.pc = "statusGet"
    /\ UNCHANGED <<now, store, ext, tr>>
    /\ LET latestTTLResource == GetRecord(rr.ttlResource.name)
       IN RRStep(rr.key, IF ~Exists(latestTTLResource) THEN RRReturn(Success, rr.log)
                 ELSE IF rr.ttlResource.uid # latestTTLResource.uid
                 THEN RRReturn(Success, rr.log)
                 ELSE RRAt("statusUpdate",
                           [latestTTLResource EXCEPT
                               !.status = latestStatus(latestTTLResource)],
                           rr.log), queue)

\* reconcileTTLResource: the write of createdAt and expiredAt
RRStatusUpdate ==
    /\ rr.pc = "statusUpdate"
    /\ LET call == StatusUpdate(rr.ttlResource)
           log == Append(rr.log, Op("statusUpdate", "TTLResource", rr.ttlResource.name,
                                    rr.ttlResource.uid, call.outcome))
       IN /\ records' = call.records
          /\ UNCHANGED <<now, targets, nextUID, ext, tr>>
          /\ RRStep(rr.key, IF call.outcome = "Conflict"
                    THEN RRReturn(RequeueAfter(RequeueSecond), log)
                    ELSE IF call.outcome = "NotFound" THEN RRReturn(Success, log)
                    ELSE checkExpiry(call.obj, now, log), queue)

\* reconcileTTLResource: the re-read of a record found already expired
RRExpiredGet ==
    /\ rr.pc = "expiredGet"
    /\ UNCHANGED <<now, store, ext, tr>>
    /\ LET latestTTLResource == GetRecord(rr.ttlResource.name)
       IN RRStep(rr.key, IF ~Exists(latestTTLResource) THEN RRReturn(Success, rr.log)
                 ELSE IF rr.ttlResource.uid # latestTTLResource.uid
                 THEN RRReturn(Success, rr.log)
                 ELSE deleteExpiredResources(latestTTLResource, rr.log), queue)

\* the re-read of a record found due, without the comparison of the UIDs
RRDueGetAnyUID ==
    /\ rr.pc = "dueGet"
    /\ UNCHANGED <<now, store, ext, tr>>
    /\ LET latestTTLResource == GetRecord(rr.ttlResource.name)
       IN RRStep(rr.key, IF ~Exists(latestTTLResource) THEN RRReturn(Success, rr.log)
                 ELSE IF ~latestTTLResource.status.expired
                 THEN RRAt("expiredUpdate",
                           [latestTTLResource EXCEPT !.status.expired = TRUE], rr.log)
                 ELSE deleteExpiredResources(latestTTLResource, rr.log), queue)

\* reconcileTTLResource: the re-read of a record found due
RRDueGet ==
    /\ rr.pc = "dueGet"
    /\ UNCHANGED <<now, store, ext, tr>>
    /\ LET latestTTLResource == GetRecord(rr.ttlResource.name)
       IN RRStep(rr.key, IF ~Exists(latestTTLResource) THEN RRReturn(Success, rr.log)
                 ELSE IF rr.ttlResource.uid # latestTTLResource.uid
                 THEN RRReturn(Success, rr.log)
                 ELSE IF ~latestTTLResource.status.expired
                 THEN RRAt("expiredUpdate",
                           [latestTTLResource EXCEPT !.status.expired = TRUE], rr.log)
                 ELSE deleteExpiredResources(latestTTLResource, rr.log), queue)

\* reconcileTTLResource: the write of expired = true
RRExpiredUpdate ==
    /\ rr.pc = "expiredUpdate"
    /\ LET call == StatusUpdate(rr.ttlResource)
           log == Append(rr.log, Op("expiredUpdate", "TTLResource", rr.ttlResource.name,
                                    rr.ttlResource.uid, call.outcome))
       IN /\ records' = call.records
          /\ UNCHANGED <<now, targets, nextUID, ext, tr>>
          /\ RRStep(rr.key, IF call.outcome = "Conflict"
                    THEN RRReturn(RequeueAfter(RequeueSecond), log)
                    ELSE IF call.outcome = "NotFound" THEN RRReturn(Success, log)
                    ELSE deleteExpiredResources(call.obj, log), queue)

\* deleteOwnerResource: the delete of the target of the first owner reference
RRDeleteOwner ==
    /\ rr.pc = "deleteOwner"
    /\ LET ownerRef == rr.ttlResource.owners[1]
           call == DeleteTarget(ownerRef.kind, ownerRef.name)
           log == Append(rr.log, Op("deleteOwner", ownerRef.kind, ownerRef.name,
                                    GetTarget(ownerRef.kind, ownerRef.name).uid,
                                    call.outcome))
       IN /\ targets' = call.targets
          /\ UNCHANGED <<now, records, nextUID, ext, tr>>
          /\ RRStep(rr.key, RRAt("deleteRecord", rr.ttlResource, log), queue)

\* deleteExpiredResources: the delete of the expired record
RRDeleteRecord ==
    /\ rr.pc = "deleteRecord"
    /\ LET name == rr.ttlResource.name
           call == Delete(name)
           log == Append(rr.log, Op("deleteRecord", "TTLResource", name,
                                    GetRecord(name).uid, call.outcome))
       IN /\ records' = call.records
          /\ UNCHANGED <<now, targets, nextUID, ext, tr>>
          /\ RRStep(rr.key, RRReturn(Success, log), queue)

ResourceReconciler ==
    \/ \E key \in Keys : RRReconcile(key)
    \/ RRGetPod \/ RRGetService \/ RRGetDeployment
    \/ RRGetExisting \/ RRUpdate \/ RRCreate
    \/ RRCleanupGet \/ RRCleanupDelete
    \/ RRStatusGet \/ RRStatusUpdate
    \/ RRExpiredGet \/ RRDueGet \/ RRExpiredUpdate
    \/ RRDeleteOwner \/ RRDeleteRecord

\* ----------------------------------------------- TTLResourceReconciler
TRReturn(res, log) == Idle(tr.key, res)

TRAt(pc, ttlResource, log) ==
    [tr EXCEPT !.pc = pc, !.ttlResource = ttlResource, !.log = log]

TRStep(key, next, q) == tr' = next /\ Schedule("tr", key, next, q)

\* the expiry check of Reconcile returning without a delay before the deadline
trCheckExpiryNoDelay(ttlResource, t, log) ==
    IF ~ttlResource.status.expired /\ t > ttlResource.status.expiredAt
    THEN TRAt("expiredUpdate", [ttlResource EXCEPT !.status.expired = TRUE], log)
    ELSE TRReturn(Success, log)

\* Reconcile from the expiry check on, for the record it holds and the time
\* it read at its start
trCheckExpiry(ttlResource, t, log) ==
    IF ~ttlResource.status.expired /\ t > ttlResource.status.expiredAt
    THEN TRAt("expiredUpdate", [ttlResource EXCEPT !.status.expired = TRUE], log)
    ELSE TRReturn(RequeueAfter(ttlResource.status.expiredAt - t), log)

\* Reconcile stamping createdAt with the time of the reconciliation
reconcileStampsNow(ttlResource) ==
    IF ttlResource.ttlSeconds = 0 THEN TRReturn(Success, <<>>)
    ELSE IF ttlResource.status.createdAt = ZeroTime
    THEN TRAt("createdAtUpdate", [ttlResource EXCEPT !.status.createdAt = now], <<>>)
    ELSE IF ttlResource.status.expiredAt = ZeroTime
    THEN TRAt("expiredAtUpdate",
              [ttlResource EXCEPT !.status.expiredAt =
                   ttlResource.status.createdAt + ttlResource.ttlSeconds],
              <<>>)
    ELSE trCheckExpiry(ttlResource, now, <<>>)

\* Reconcile from its entry to its first write, for the record it read
reconcile(ttlResource) ==
    IF ttlResource.ttlSeconds = 0 THEN TRReturn(Success, <<>>)
    ELSE IF ttlResource.status.createdAt = ZeroTime
    THEN TRAt("createdAtUpdate",
              [ttlResource EXCEPT !.status.createdAt = ttlResource.creationTimestamp],
              <<>>)
    ELSE IF ttlResource.status.expiredAt = ZeroTime
    THEN TRAt("expiredAtUpdate",
              [ttlResource EXCEPT !.status.expiredAt =
                   ttlResource.status.createdAt + ttlResource.ttlSeconds],
              <<>>)
    ELSE trCheckExpiry(ttlResource, now, <<>>)

\* Reconcile that returns the error of its first read whatever it is, a
\* NotFound included
TRReconcileNotFoundFails(key) ==
    /\ tr.pc = "idle"
    /\ key \in queue.tr
    /\ UNCHANGED <<now, store, ext, rr>>
    /\ LET ttlResource == GetRecord(key)
           next == IF ~Exists(ttlResource) THEN TRReturn(Failure, <<>>)
                   ELSE reconcile(ttlResource)
       IN TRStep(key,
                 IF next.pc = "idle" THEN Running(key, next)
                 ELSE [Running(key, next) EXCEPT !.now = now],
                 [queue EXCEPT !.tr = @ \ {key}])

\* Reconcile: the read of the record
TRReconcile(key) ==
    /\ tr.pc = "idle"
    /\ key \in queue.tr
    /\ UNCHANGED <<now, store, ext, rr>>
    /\ LET ttlResource == GetRecord(key)
           next == IF ~Exists(ttlResource) THEN TRReturn(Success, <<>>)
                   ELSE reconcile(ttlResource)
       IN TRStep(key,
                 IF next.pc = "idle" THEN Running(key, next)
                 ELSE [Running(key, next) EXCEPT !.now = now],
                 [queue EXCEPT !.tr = @ \ {key}])

\* Reconcile: the write of createdAt
TRCreatedAtUpdate ==
    /\ tr.pc = "createdAtUpdate"
    /\ LET call == StatusUpdate(tr.ttlResource)
           log == Append(tr.log, Op("createdAtUpdate", "TTLResource", tr.ttlResource.name,
                                    tr.ttlResource.uid, call.outcome))
       IN /\ records' = call.records
          /\ UNCHANGED <<now, targets, nextUID, ext, rr>>
          /\ TRStep(tr.key, IF call.outcome # "OK" THEN TRReturn(Failure, log)
                    ELSE TRReturn(Requeue, log), queue)

\* Reconcile: the write of expiredAt
TRExpiredAtUpdate ==
    /\ tr.pc = "expiredAtUpdate"
    /\ LET call == StatusUpdate(tr.ttlResource)
           log == Append(tr.log, Op("expiredAtUpdate", "TTLResource", tr.ttlResource.name,
                                    tr.ttlResource.uid, call.outcome))
       IN /\ records' = call.records
          /\ UNCHANGED <<now, targets, nextUID, ext, rr>>
          /\ TRStep(tr.key, IF call.outcome # "OK" THEN TRReturn(Failure, log)
                    ELSE trCheckExpiry(call.obj, tr.now, log), queue)

\* Reconcile: the write of expired = true
TRExpiredUpdate ==
    /\ tr.pc = "expiredUpdate"
    /\ LET call == StatusUpdate(tr.ttlResource)
           log == Append(tr.log, Op("expiredUpdate", "TTLResource", tr.ttlResource.name,
                                    tr.ttlResource.uid, call.outcome))
       IN /\ records' = call.records
          /\ UNCHANGED <<now, targets, nextUID, ext, rr>>
          /\ TRStep(tr.key, IF call.outcome # "OK" THEN TRReturn(Failure, log)
                    ELSE TRAt("delete", call.obj, log), queue)

\* Reconcile: the delete of the expired record
TRDelete ==
    /\ tr.pc = "delete"
    /\ LET name == tr.ttlResource.name
           call == Delete(name)
           log == Append(tr.log, Op("deleteRecord", "TTLResource", name,
                                    GetRecord(name).uid, call.outcome))
       IN /\ records' = call.records
          /\ UNCHANGED <<now, targets, nextUID, ext, rr>>
          /\ TRStep(tr.key, IF call.outcome # "OK" THEN TRReturn(Failure, log)
                    ELSE TRReturn(Success, log), queue)

TTLResourceReconciler ==
    \/ \E key \in RecordNames : TRReconcile(key)
    \/ TRCreatedAtUpdate \/ TRExpiredAtUpdate \/ TRExpiredUpdate \/ TRDelete

\* ------------------------------------------------------------ the cluster
Users ==
    \/ \E kind \in Kinds, name \in TargetNames :
          \/ \E v \in AnnInputs : UserCreateTarget(kind, name, Annotation(v))
          \/ UserCreateTarget(kind, name, NoAnnotation)
          \/ \E v \in AnnInputs : UserAnnotate(kind, name, Annotation(v))
          \/ UserAnnotate(kind, name, NoAnnotation)
          \/ UserDeleteTarget(kind, name)
          \/ TargetRemoved(kind, name)
    \/ \E name \in RecordNames :
          \/ \E ttlSeconds \in TTLInputs : UserCreateRecord(name, ttlSeconds)
          \/ \E ttlSeconds \in TTLInputs : UserSetTTL(name, ttlSeconds)
          \/ UserDeleteRecord(name)
    \/ \E key \in Keys : Redelivered("rr", key)
    \/ \E key \in RecordNames : Redelivered("tr", key)

Next == Tick \/ Users \/ ResourceReconciler \/ TTLResourceReconciler

Spec == Init /\ [][Next]_vars

\* ------------------------------------------------- the operator on its own
\* A cluster that holds one annotated target when the operator starts and
\* that no user touches afterwards; the informers' first list queues the
\* target's key.  The steps are those of Next that such a cluster can take.
InitCascade ==
    /\ now = 1
    /\ records = [n \in RecordNames |-> NoObj]
    /\ \E kind \in Kinds, name \in TargetNames :
          targets = [t \in Kinds \X TargetNames |->
                        IF t = <<kind, name>>
                        THEN [uid |-> 1, kind |-> kind, name |-> name,
                              annotations |-> Annotation(<<"1">>), deleting |-> FALSE]
                        ELSE NoObj]
    /\ nextUID = 2
    /\ ext = 0
    /\ rr = Idle("", Success)
    /\ tr = Idle("", Success)
    /\ queue = [rr |-> TargetNames, tr |-> {}]

Removals == \E kind \in Kinds, name \in TargetNames : TargetRemoved(kind, name)

ResourceReconcilerCascade ==
    \/ \E key \in Keys : RRReconcile(key)
    \/ RRGetPod \/ RRGetService \/ RRGetDeployment
    \/ RRGetExisting \/ RRCreate
    \/ RRCleanupGet
    \/ RRStatusGet \/ RRStatusUpdate
    \/ RRExpiredGet \/ RRDueGet \/ RRExpiredUpdate
    \/ RRDeleteOwner \/ RRDeleteRecord

NextCascade == Tick \/ Removals \/ ResourceReconcilerCascade \/ TTLResourceReconciler

\* the workers take the keys that wait, the store finishes its removals
SpecCascade ==
    /\ InitCascade
    /\ [][NextCascade]_vars
    /\ WF_vars(ResourceReconcilerCascade)
    /\ WF_vars(TTLResourceReconciler)
    /\ WF_vars(Removals)

\* ---------------------------------------------------------------- notions
\* a target the operator is to delete: present, not being deleted, with a
\* TTL annotation that parses to a positive number
ValidTTL(t) ==
    /\ Exists(t) /\ ~t.deleting /\ t.annotations.has
    /\ ~Atoi(t.annotations.val).err /\ Atoi(t.annotations.val).n > 0

\* a record with both instants set and not yet expired
Scheduled(r) ==
    /\ Exists(r) /\ r.ttlSeconds > 0 /\ ~r.status.expired
    /\ r.status.createdAt # ZeroTime /\ r.status.expiredAt # ZeroTime

\* nothing runs, nothing waits, no removal is pending: only the clock moves
Quiescent ==
    /\ rr.pc = "idle" /\ tr.pc = "idle"
    /\ queue.rr = {} /\ queue.tr = {}
    /\ \A t \in DOMAIN targets : ~(Exists(targets[t]) /\ targets[t].deleting)

\* the step is the first read of an invocation of the worker for key
RRStarts(key) ==
    /\ rr.pc = "idle" /\ key \in queue.rr /\ rr'.key = key
    /\ rr' # rr \/ key \notin queue'.rr
TRStarts(key) ==
    /\ tr.pc = "idle" /\ key \in queue.tr /\ tr'.key = key
    /\ tr' # tr \/ key \notin queue'.tr

\* the log of an invocation holds a call op on the object kind/name
Logged(log, op, kind, name) ==
    \E i \in 1..Len(log) : log[i].op = op /\ log[i].kind = kind /\ log[i].name = name

\* -------------------------------------------------------------- properties
\* C1: once the deadline of an annotated target has passed, the target and
\* its record are eventually absent.  A quiescent state is final, so the
\* property is that no quiescent state holds an annotated target or a record.
C1_CascadeCompletes ==
    Quiescent =>
        /\ \A t \in DOMAIN targets : ~ValidTTL(targets[t])
        /\ \A n \in RecordNames : ~Exists(records[n])

\* C2: the invocation whose delete removes an expired record that has an
\* owner reference has requested the delete of that owner before, in either
\* reconciler.
C2_CascadeAtomic ==
    [][\A n \in RecordNames :
          (/\ Exists(records[n]) /\ ~Exists(records'[n])
           /\ records[n].status.expired /\ Len(records[n].owners) > 0)
          => /\ (tr.pc = "delete" /\ tr' # tr) =>
                    Logged(tr.log, "deleteOwner", records[n].owners[1].kind,
                           records[n].owners[1].name)
             /\ (rr.pc = "deleteRecord" /\ rr' # rr) =>
                    Logged(rr.log, "deleteOwner", records[n].owners[1].kind,
                           records[n].owners[1].name)]_vars

\* C3: an invocation of either reconciler that reads a Scheduled record at
\* or after createdAt + ttlSeconds goes on to set expired; no reconciler
\* sets expired before that instant.
C3_TimerBoundary ==
    [][\A n \in RecordNames :
          (Scheduled(records[n])
           /\ records[n].status.expiredAt =
                  records[n].status.createdAt + records[n].ttlSeconds)
          => /\ (TRStarts(n) /\ now >= records[n].status.expiredAt)
                    => tr'.pc = "expiredUpdate"
             /\ (RRStarts(n) /\ now >= records[n].status.expiredAt)
                    => rr'.pc = "dueGet"
             /\ (now < records[n].status.expiredAt /\ Exists(records'[n])
                 /\ records'[n].uid = records[n].uid)
                    => ~records'[n].status.expired]_vars

\* the step is one of a reconciler, not of a user, the store or the clock
ReconcilerStep == rr' # rr \/ tr' # tr

\* C4: a record whose ttlSeconds is 0 is left as it is by every step of
\* either reconciler (no createdAt, expiredAt or expired written, no delete),
\* and an invocation that reads it returns plain success at once.
C4_ZeroAbsorbing ==
    [][\A n \in RecordNames :
          (Exists(records[n]) /\ records[n].ttlSeconds = 0)
          => /\ ReconcilerStep => (/\ Exists(records'[n])
                                   /\ records'[n].status = records[n].status)
             /\ RRStarts(n) => (rr'.pc = "idle" /\ rr'.res = Success)
             /\ TRStarts(n) => (tr'.pc = "idle" /\ tr'.res = Success)]_vars

C6_SpecChangeReset ==
    [][\A n \in RecordNames :
          (/\ rr.pc = "update" /\ rr' # rr /\ rr.ttlResource.name = n
           /\ Scheduled(records[n]) /\ records[n].managed /\ Exists(records'[n])
           /\ records'[n].ttlSeconds # records[n].ttlSeconds)
          => /\ records'[n].ttlSeconds = rr.ttlSeconds
             /\ ~records'[n].status.expired
             /\ records'[n].status.expiredAt = ZeroTime]_vars

\* C7: a stored record with ttlSeconds > 0 and both instants set has
\* expiredAt = createdAt + ttlSeconds.
C7_ExpiredAtDerived ==
    \A n \in RecordNames :
        (/\ Exists(records[n]) /\ records[n].ttlSeconds > 0
         /\ records[n].status.createdAt # ZeroTime
         /\ records[n].status.expiredAt # ZeroTime)
        => records[n].status.expiredAt =
               records[n].status.createdAt + records[n].ttlSeconds

\* ------------------------------------------ a record that outlives its target
\* The state Spec is in after a user has created Deployment a with the
\* annotation "1", the ResourceReconciler has created ttl-a for it, and the
\* user has deleted the Deployment: the record is there, its keys wait.  The
\* count of user changes starts afresh; from here users change records only,
\* so the steps are those of Next that a cluster without targets can take.
InitOrphan ==
    /\ now = 1
    /\ records = [n \in RecordNames |->
                     [uid |-> 2, name |-> n, rv |-> 1, creationTimestamp |-> 1,
                      managed |-> TRUE,
                      owners |-> <<OwnerRef(apiVersionOf("Deployment"), "Deployment", "a", 1)>>,
                      ttlSeconds |-> 1, status |-> EmptyStatus]]
    /\ targets = [t \in Kinds \X TargetNames |-> NoObj]
    /\ nextUID = 3
    /\ ext = 0
    /\ rr = Idle("", Success)
    /\ tr = Idle("", Success)
    /\ queue = [rr |-> Keys, tr |-> RecordNames]

UsersOfRecords ==
    \E name \in RecordNames :
        \/ \E ttlSeconds \in TTLInputs : UserCreateRecord(name, ttlSeconds)
        \/ \E ttlSeconds \in TTLInputs : UserSetTTL(name, ttlSeconds)
        \/ UserDeleteRecord(name)

ResourceReconcilerOrphan ==
    \/ \E key \in Keys : RRReconcile(key)
    \/ RRGetPod \/ RRGetService \/ RRGetDeployment
    \/ RRCleanupGet \/ RRCleanupDelete
    \/ RRStatusGet \/ RRStatusUpdate
    \/ RRExpiredGet \/ RRDueGet \/ RRExpiredUpdate
    \/ RRDeleteOwner \/ RRDeleteRecord

NextOrphan == Tick \/ UsersOfRecords \/ ResourceReconcilerOrphan \/ TTLResourceReconciler

SpecOrphan == InitOrphan /\ [][NextOrphan]_vars

\* C8: cleanupTTLResource deletes the record named "ttl-<key>" if and only
\* if it exists and carries the managed-by label; a record without the label
\* is left unchanged; a missing record, on the read or on the delete, gives
\* plain success.
C8_ReverseCleanup ==
    [][\A n \in RecordNames :
          /\ (rr.pc = "cleanupGet" /\ rr' # rr /\ n = ttlResourceName(rr.key))
                => IF Exists(records[n]) /\ records[n].managed
                   THEN rr'.pc = "cleanupDelete"
                   ELSE rr'.pc = "idle" /\ rr'.res = Success /\ records' = records
          /\ (rr.pc = "cleanupDelete" /\ rr' # rr /\ n = rr.ttlResource.name)
                => /\ rr'.pc = "idle" /\ rr'.res = Success
                   /\ ~Exists(records[n]) => records' = records
                   /\ (Exists(records[n]) /\ records[n].managed) => ~Exists(records'[n])
                   /\ (Exists(records[n]) /\ ~records[n].managed)
                         => records'[n] = records[n]]_vars

\* the state of an invocation of the ResourceReconciler whose first read
\* found no record under the key: its probes and the read of cleanup
NotFoundPath == {"getPod", "getService", "getDeployment", "cleanupGet"}

AfterCascade ==
    /\ ext = 1 /\ nextUID = 3
    /\ \A t \in DOMAIN targets : ~Exists(targets[t])
    /\ \A n \in RecordNames : ~Exists(records[n])

C10_DiscoveryKeepsUserRecord ==
    [][\A n \in RecordNames :
          (/\ rr.pc \in {"getExisting", "update", "create"} /\ rr' # rr
           /\ n = ttlResourceName(rr.obj.name)
           /\ Exists(records[n]) /\ ~records[n].managed)
          => records'[n] = records[n]]_vars

\* the probes of Reconcile and the kind each one reads
Probes == {"getPod", "getService", "getDeployment"}
KindOfProbe(pc) ==
    IF pc = "getPod" THEN "Pod" ELSE IF pc = "getService" THEN "Service" ELSE "Deployment"

\* a target that is not being deleted and whose TTL annotation is present
\* but is no integer or is not positive
InvalidTTL(t) ==
    /\ Exists(t) /\ ~t.deleting /\ t.annotations.has
    /\ Atoi(t.annotations.val).err \/ Atoi(t.annotations.val).n <= 0

\* C11: the probe that resolves a target with an invalid annotation, while
\* the target's managed record is in the store, goes on to the reverse
\* cleanup, as it does for a target without the annotation.
C11_InvalidLikeAbsent ==
    [][(/\ rr.pc \in Probes /\ rr' # rr
        /\ InvalidTTL(GetTarget(KindOfProbe(rr.pc), rr.key))
        /\ ttlResourceName(rr.key) \in RecordNames
        /\ Exists(records[ttlResourceName(rr.key)])
        /\ records[ttlResourceName(rr.key)].managed)
       => rr'.pc = "cleanupGet"]_vars

\* the states in which a worker is about to write the record it holds
RRWrites == {"update", "statusUpdate", "expiredUpdate"}
TRWrites == {"createdAtUpdate", "expiredAtUpdate", "expiredUpdate"}

Stale(w) ==
    /\ Exists(GetRecord(w.name))
    /\ w.uid # GetRecord(w.name).uid \/ w.rv # GetRecord(w.name).rv

\* C13: a status write of either reconciler that fails with Conflict ends
\* the invocation with success and a requeue after one second, with no
\* delete and the store unchanged; one that fails with NotFound ends it with
\* plain success.
C13_ConflictNotAnError ==
    [][/\ (rr.pc \in {"statusUpdate", "expiredUpdate"} /\ rr' # rr)
          => /\ Stale(rr.ttlResource)
                  => (rr' = Idle(rr.key, RequeueAfter(RequeueSecond)) /\ store' = store)
             /\ ~Exists(GetRecord(rr.ttlResource.name))
                  => (rr' = Idle(rr.key, Success) /\ store' = store)
       /\ (tr.pc \in TRWrites /\ tr' # tr)
          => /\ Stale(tr.ttlResource)
                  => (tr' = Idle(tr.key, RequeueAfter(RequeueSecond)) /\ store' = store)
             /\ ~Exists(GetRecord(tr.ttlResource.name))
                  => (tr' = Idle(tr.key, Success) /\ store' = store)]_vars

\* C14: when the re-read before the cascade finds no record, or a record of
\* another UID than the one the invocation holds, the invocation ends there
\* with plain success: expired is not written, no target and no record is
\* deleted, the store is as it was.
C14_UIDGuard ==
    [][(/\ rr.pc \in {"expiredGet", "dueGet"} /\ rr' # rr
        /\ GetRecord(rr.ttlResource.name).uid # rr.ttlResource.uid)
       => /\ rr' = Idle(rr.key, Success)
          /\ store' = store
          /\ \A i \in 1..Len(rr.log) :
                rr.log[i].op \notin {"expiredUpdate", "deleteOwner", "deleteRecord"}]_vars

\* C14 witness: the ResourceReconciler found its record due and is at the
\* re-read, and the name now belongs to a record of another UID.
C14_Witness ==
    /\ rr.pc \in {"expiredGet", "dueGet"}
    /\ Exists(GetRecord(rr.ttlResource.name))
    /\ GetRecord(rr.ttlResource.name).uid # rr.ttlResource.uid

\* ------------------------------------------------- records with any owner
\* Owner references a record can carry: none, the three kinds the operator
\* manages, a kind deleteOwnerResource has no case for, a group/version it
\* has no case for, and an apiVersion with two "/" that does not parse.
OwnerInputs ==
    {<<>>,
     <<OwnerRef(<<"v1">>, "Pod", "a", 1)>>,
     <<OwnerRef(<<"v1">>, "Service", "a", 2)>>,
     <<OwnerRef(<<"apps", "v1">>, "Deployment", "a", 3)>>,
     <<OwnerRef(<<"v1">>, "ConfigMap", "a", 1)>>,
     <<OwnerRef(<<"v1">>, "Deployment", "a", 3)>>,
     <<OwnerRef(<<"a", "b", "v1">>, "Pod", "a", 1)>>}

UIDOfKind(kind) == IF kind = "Pod" THEN 1 ELSE IF kind = "Service" THEN 2 ELSE 3

\* A cluster with one record of one second, with or without the managed-by
\* label, carrying any of the owner references, beside any of the targets,
\* none of them annotated; every key waits.  No user acts from here.
InitOwners ==
    /\ now = 1
    /\ \E owners \in OwnerInputs, managed \in BOOLEAN :
          records = [n \in RecordNames |->
                        [uid |-> 4, name |-> n, rv |-> 1, creationTimestamp |-> 1,
                         managed |-> managed, owners |-> owners,
                         ttlSeconds |-> 1, status |-> EmptyStatus]]
    /\ \E present \in SUBSET Kinds :
          targets = [t \in Kinds \X TargetNames |->
                        IF t[1] \in present
                        THEN [uid |-> UIDOfKind(t[1]), kind |-> t[1], name |-> t[2],
                              annotations |-> NoAnnotation, deleting |-> FALSE]
                        ELSE NoObj]
    /\ nextUID = 5
    /\ ext = 0
    /\ rr = Idle("", Success)
    /\ tr = Idle("", Success)
    /\ queue = [rr |-> Keys, tr |-> RecordNames]

NextOwners == Tick \/ Removals \/ ResourceReconcilerOrphan \/ TTLResourceReconciler

SpecOwners == InitOwners /\ [][NextOwners]_vars

\* the first owner reference names something deleteOwnerResource can delete
Deletable(owners) ==
    /\ Len(owners) > 0
    /\ ~ParseGroupVersion(owners[1].apiVersion).err
    /\ SupportedGVK(ParseGroupVersion(owners[1].apiVersion).group,
                    ParseGroupVersion(owners[1].apiVersion).version, owners[1].kind)

\* the next step of the ResourceReconciler calls deleteExpiredResources: its
\* re-read finds the record it holds, expired already, or its write of
\* expired = true succeeds
EntersDelete ==
    LET latest == GetRecord(rr.ttlResource.name) IN
    /\ rr.pc \in {"expiredGet", "dueGet", "expiredUpdate"}
    /\ Exists(latest) /\ latest.uid = rr.ttlResource.uid
    /\ rr.pc = "dueGet" => latest.status.expired
    /\ rr.pc = "expiredUpdate" => latest.rv = rr.ttlResource.rv

ManagedFor(name) ==
    {n \in RecordNames : /\ Exists(records[n]) /\ records[n].managed
                         /\ Len(records[n].owners) > 0
                         /\ records[n].owners[1].name = name}

C17_CreatedAtAlone ==
    [][\A n \in RecordNames :
          /\ (/\ rr.pc = "statusUpdate" /\ rr' # rr /\ rr.ttlResource.name = n
              /\ Exists(records[n]) /\ records[n].ttlSeconds > 0
              /\ records[n].status.createdAt = ZeroTime
              /\ records' # records)
             => /\ records'[n].status =
                      [records[n].status EXCEPT !.createdAt = records[n].creationTimestamp]
                /\ rr'.pc = "idle" /\ ~rr'.res.err /\ Requeued(rr'.res)
          /\ (/\ tr.pc = "createdAtUpdate" /\ tr' # tr /\ tr.ttlResource.name = n
              /\ Exists(records[n]) /\ records[n].ttlSeconds > 0
              /\ records[n].status.createdAt = ZeroTime
              /\ records' # records)
             => /\ records'[n].status =
                      [records[n].status EXCEPT !.createdAt = records[n].creationTimestamp]
                /\ tr'.pc = "idle" /\ ~tr'.res.err /\ Requeued(tr'.res)]_vars

\* C18: a record's status.createdAt, once set, is the record's own creation
\* instant, and no step of a reconciler changes it while the record keeps
\* its UID.
C18_CreatedAtImmutable ==
    /\ [](\A n \in RecordNames :
             (Exists(records[n]) /\ records[n].status.createdAt # ZeroTime)
                => records[n].status.createdAt = records[n].creationTimestamp)
    /\ [][\A n \in RecordNames :
             (/\ Exists(records[n]) /\ Exists(records'[n])
              /\ records'[n].uid = records[n].uid
              /\ records[n].status.createdAt # ZeroTime)
                => records'[n].status.createdAt = records[n].status.createdAt]_vars

\* C18 witness: the Discovery Reconciler has rewritten the spec of a record
\* whose createdAt was set, and createdAt is still there.
C18_Witness ==
    \E n \in RecordNames :
        /\ rr.pc = "idle" /\ rr.key \in TargetNames /\ n = ttlResourceName(rr.key)
        /\ Exists(records[n]) /\ records[n].status.createdAt # ZeroTime
        /\ \E t \in Kinds \X TargetNames :
              /\ ValidTTL(targets[t])
              /\ Atoi(targets[t].annotations.val).n = records[n].ttlSeconds
              /\ records[n].status.expiredAt # ZeroTime
              /\ records[n].status.expiredAt
                    # records[n].status.createdAt + records[n].ttlSeconds

\* C19: an invocation of either reconciler that reads a record with
\* ttlSeconds > 0, both instants set, expired = false and now < expiredAt
\* ends at that read: the store is as it was and the result is a success
\* with the delay expiredAt - now, which is above zero.
C19_NotDueIsPureRead ==
    [][\A n \in RecordNames :
          (Scheduled(records[n]) /\ now < records[n].status.expiredAt)
             => /\ RRStarts(n)
                   => /\ rr' = Idle(n, RequeueAfter(records[n].status.expiredAt - now))
                      /\ rr'.res.requeueAfter > 0
                      /\ store' = store
                /\ TRStarts(n)
                   => /\ tr' = Idle(n, RequeueAfter(records[n].status.expiredAt - now))
                      /\ tr'.res.requeueAfter > 0
                      /\ store' = store]_vars

\* C19 witness: the ResourceReconciler wrote the status of the record, once,
\* and the TTLResourceReconciler has since read it before its deadline; both
\* have returned the time that is left.
C19_Witness ==
    \E n \in RecordNames :
        /\ Scheduled(records[n]) /\ now < records[n].status.expiredAt
        /\ records[n].rv = 2
        /\ rr = Idle(n, RequeueAfter(records[n].status.expiredAt - now))
        /\ tr = Idle(n, RequeueAfter(records[n].status.expiredAt - now))

\* C20: a resolved target whose deletion timestamp is set sends the
\* invocation to cleanupTTLResource whatever its annotation, and cleanup
\* reads the record named "ttl-<key>" and at most deletes it: no record is
\* created, none has its spec or status changed, no target is touched.
C20_DeletingOnlyCleanup ==
    [][/\ (/\ rr.pc \in Probes /\ rr' # rr
           /\ Exists(GetTarget(KindOfProbe(rr.pc), rr.key))
           /\ GetTarget(KindOfProbe(rr.pc), rr.key).deleting)
          => rr'.pc = "cleanupGet" /\ rr'.key = rr.key /\ store' = store
       /\ (rr.pc = "cleanupGet" /\ rr' # rr)
          => /\ rr'.pc \in {"idle", "cleanupDelete"}
             /\ rr'.pc = "cleanupDelete"
                   => rr'.ttlResource.name = ttlResourceName(rr.key)
             /\ store' = store
       /\ (rr.pc = "cleanupDelete" /\ rr' # rr)
          => /\ rr'.pc = "idle"
             /\ targets' = targets
             /\ \A n \in RecordNames :
                   \/ records'[n] = records[n]
                   \/ n = ttlResourceName(rr.key) /\ ~Exists(records'[n])]_vars

\* C20 witness: the target of the key is being deleted, its annotation is
\* valid, and the invocation is in cleanup with the managed record read.
C20_Witness ==
    \E kind \in Kinds :
        /\ rr.pc = "cleanupDelete" /\ rr.key \in TargetNames
        /\ Exists(GetTarget(kind, rr.key))
        /\ GetTarget(kind, rr.key).deleting
        /\ GetTarget(kind, rr.key).annotations.has
        /\ ~Atoi(GetTarget(kind, rr.key).annotations.val).err
        /\ Atoi(GetTarget(kind, rr.key).annotations.val).n > 0

\* ------------------------------------------- a record behind its annotation
\* A cluster in which the annotation of the one target has just been changed
\* from "1" to "2": the managed record made for "1" is there with its status
\* empty, the keys of target and record wait.  No user acts from here.
InitRetarget ==
    /\ now = 1
    /\ \E kind \in Kinds :
          /\ targets = [t \in Kinds \X TargetNames |->
                           IF t[1] = kind
                           THEN [uid |-> 1, kind |-> kind, name |-> t[2],
                                 annotations |-> Annotation(<<"2">>), deleting |-> FALSE]
                           ELSE NoObj]
          /\ records = [n \in RecordNames |->
                           [uid |-> 2, name |-> n, rv |-> 1, creationTimestamp |-> 1,
                            managed |-> TRUE,
                            owners |-> <<OwnerRef(apiVersionOf(kind), kind, "a", 1)>>,
                            ttlSeconds |-> 1, status |-> EmptyStatus]]
    /\ nextUID = 3
    /\ ext = 0
    /\ rr = Idle("", Success)
    /\ tr = Idle("", Success)
    /\ queue = [rr |-> Keys, tr |-> RecordNames]

ResourceReconcilerRetarget ==
    \/ \E key \in Keys : RRReconcile(key)
    \/ RRGetPod \/ RRGetService \/ RRGetDeployment
    \/ RRGetExisting \/ RRUpdate \/ RRCreate
    \/ RRCleanupGet
    \/ RRStatusGet \/ RRStatusUpdate
    \/ RRExpiredGet \/ RRDueGet \/ RRExpiredUpdate
    \/ RRDeleteOwner \/ RRDeleteRecord

NextRetarget == Tick \/ Removals \/ ResourceReconcilerRetarget \/ TTLResourceReconciler

\* the clock runs, the workers take the keys that wait, the store finishes
\* its removals
SpecRetarget ==
    /\ InitRetarget
    /\ [][NextRetarget]_vars
    /\ WF_vars(Tick)
    /\ WF_vars(ResourceReconcilerRetarget)
    /\ WF_vars(TTLResourceReconciler)
    /\ WF_vars(Removals)

\* the record of the name carries the TTL its target is annotated with
SpecFollowsAnnotation(name) ==
    \E kind \in Kinds :
        /\ ValidTTL(GetTarget(kind, name))
        /\ Exists(GetRecord(ttlResourceName(name)))
        /\ GetRecord(ttlResourceName(name)).ttlSeconds
              = Atoi(GetTarget(kind, name).annotations.val).n

\* C21: an update of ttlSeconds by the Discovery Reconciler that meets a
\* Conflict ends the invocation with plain success and the store as it was,
\* and from there on, the target left alone, the record's ttlSeconds
\* eventually equals the annotation.
C21_ConflictConverges ==
    /\ [][(rr.pc = "update" /\ rr' # rr /\ Stale(rr.ttlResource))
             => rr' = Idle(rr.key, Success) /\ store' = store]_vars
    /\ \A name \in TargetNames :
          (rr.pc = "update" /\ rr.key = name /\ Stale(rr.ttlResource))
             ~> SpecFollowsAnnotation(name)

\* ------------------------------------------------ a target made again
\* From the cluster of InitOrphan, whose record names a Deployment that is
\* gone, users make annotated targets again under the same name.
UsersOfTargets ==
    \E kind \in Kinds, name \in TargetNames, v \in {<<"1">>, <<"2">>} :
        UserCreateTarget(kind, name, Annotation(v))

NextRecreate ==
    Tick \/ UsersOfTargets \/ Removals \/ ResourceReconciler \/ TTLResourceReconciler

SpecRecreate == InitOrphan /\ [][NextRecreate]_vars

\* C22: the owner delete of a cascade removes, or marks for deletion, a
\* target only if the UID of that target is the UID in the record's owner
\* reference.
C22_OwnerDeleteByUID ==
    [][(rr.pc = "deleteOwner" /\ rr' # rr /\ targets' # targets)
          => GetTarget(rr.ttlResource.owners[1].kind, rr.ttlResource.owners[1].name).uid
                = rr.ttlResource.owners[1].uid]_vars

\* C23: an invocation of the TTLResourceReconciler that reads a record
\* stored with expired = true goes on to delete it, or returns an error or
\* a delay above zero; it does not return a plain success that leaves the
\* record in the store.
C23_ExpiredIsDeleted ==
    [][\A n \in RecordNames :
          (/\ TRStarts(n) /\ Exists(records[n])
           /\ records[n].ttlSeconds > 0 /\ records[n].status.expired)
             => \/ tr'.pc # "idle"
                \/ ~Exists(records'[n])
                \/ tr'.res.err \/ tr'.res.requeue \/ tr'.res.requeueAfter > 0]_vars

\* C24: a record delete issued by a cascade, of either reconciler, removes
\* only a record whose UID is the UID of the record the invocation found
\* expired; a record made again under the name is left in the store.
C24_DeleteSameGeneration ==
    [][\A n \in RecordNames :
          /\ (/\ rr.pc = "deleteRecord" /\ rr' # rr /\ rr.ttlResource.name = n
              /\ Exists(records[n]) /\ ~Exists(records'[n]))
             => records[n].uid = rr.ttlResource.uid
          /\ (/\ tr.pc = "delete" /\ tr' # tr /\ tr.ttlResource.name = n
              /\ Exists(records[n]) /\ ~Exists(records'[n]))
             => records[n].uid = tr.ttlResource.uid]_vars

\* C25: a step of a reconciler that stores expired = true does so on a
\* record that is due as stored: ttlSeconds > 0, expiredAt set and not after
\* now; and a re-read before the cascade that finds ttlSeconds changed
\* since the invocation's read ends the invocation there, with no write of
\* expired and no delete.
C25_ExpiredOnlyWhenDue ==
    [][/\ \A n \in RecordNames :
             (/\ ReconcilerStep /\ Exists(records[n]) /\ Exists(records'[n])
              /\ ~records[n].status.expired /\ records'[n].status.expired)
                => /\ records'[n].ttlSeconds > 0
                   /\ records'[n].status.expiredAt # ZeroTime
                   /\ now >= records'[n].status.expiredAt
       /\ (/\ rr.pc \in {"expiredGet", "dueGet"} /\ rr' # rr
           /\ Exists(GetRecord(rr.ttlResource.name))
           /\ GetRecord(rr.ttlResource.name).ttlSeconds # rr.ttlResource.ttlSeconds)
          => rr'.pc = "idle"]_vars

\* C26: the delete of reverse cleanup removes a managed record only when the
\* target its owner reference names, by kind and name, is absent, marked
\* for deletion or without a valid TTL annotation.
C26_CleanupSparesLiveTarget ==
    [][\A n \in RecordNames :
          (/\ rr.pc = "cleanupDelete" /\ rr' # rr /\ rr.ttlResource.name = n
           /\ Exists(records[n]) /\ records[n].managed /\ Len(records[n].owners) > 0
           /\ ~Exists(records'[n]))
             => ~ValidTTL(GetTarget(records[n].owners[1].kind, records[n].owners[1].name))]_vars

====
